---------------------------- MODULE Spec2Model ----------------------------
(***************************************************************************)
(* A model of the Braintrust log tools: the BTQL query builder and         *)
(* executor (src/utils/btql_queries.py) and the MCP tools fetch_logs,      *)
(* save_logs_to_file, read_logs_from_file and execute_custom_btql          *)
(* (src/server.py).                                                        *)
(*                                                                         *)
(* JSON values are tagged records: [t |-> "null"], [t |-> "str", v |-> s], *)
(* [t |-> "num", v |-> n], [t |-> "bool", v |-> b],                        *)
(* [t |-> "list", v |-> <<...>>] and [t |-> "obj", v |-> [key |-> value]]. *)
(* Python's None is the null value.  A text (an HTTP body, an error        *)
(* message) is kept as its length and the place of the substring "500" in  *)
(* it, which is all the code reads of it.                                  *)
(***************************************************************************)
EXTENDS Integers, Sequences, FiniteSets, TLC

\* ------------------------------------------------------------------ bounds

\* The longest data sequence the backend returns, the big one aside.
MaxRecs == 2
\* The length of the big backend result (more records than one read returns).
BigLen == 51
\* The largest start_index a reader passes.
MaxStart == 3
\* The number of tokens one flush of the file buffer carries to the disk.
FlushToks == 600

\* The calls a caller who pages through a file makes at most.
MaxPages == 6

\* ------------------------------------------------------- program constants

SizeCap == 250
MaxRetries == 3
SleepUnits == 1
MaxBatch == 50
PreviewLen == 200
HttpOk == 200

\* ------------------------------------------------------------- JSON values

Null == [t |-> "null"]

Str(s) == [t |-> "str", v |-> s]

Num(n) == [t |-> "num", v |-> n]

Bool(b) == [t |-> "bool", v |-> b]

List(q) == [t |-> "list", v |-> q]

Obj(f) == [t |-> "obj", v |-> f]

EmptyObj == Obj(<<>>)

\* A query text, a file name and a file path as values of a payload.
QText(lines) == [t |-> "text", v |-> lines]

Name(fname) == [t |-> "name", v |-> fname]

Path(fname) == [t |-> "path", v |-> fname]

\* isinstance(x, dict), isinstance(x, list)
IsDict(x) == x.t = "obj"

IsList(x) == x.t = "list"

\* d.get(k, dflt) of a dict d
GetOr(d, k, dflt) == IF k \in DOMAIN d.v THEN d.v[k] ELSE dflt

\* d.get(k) of a dict d
Get(d, k) == GetOr(d, k, Null)

Min(a, b) == IF a < b THEN a ELSE b

Max(a, b) == IF a < b THEN b ELSE a

\* The element of qq at position i, the empty sequence past its end.
At(qq, i) == IF i <= Len(qq) THEN qq[i] ELSE <<>>

\* The concatenation of the eight elements of qq that follow position b.
Cat8(qq, b) ==
    At(qq, b + 1) \o At(qq, b + 2) \o At(qq, b + 3) \o At(qq, b + 4)
    \o At(qq, b + 5) \o At(qq, b + 6) \o At(qq, b + 7) \o At(qq, b + 8)

RECURSIVE Flatten(_)
\* The concatenation of a sequence of sequences, eight at a time.
Flatten(qq) ==
    IF Len(qq) <= 8 THEN Cat8(qq, 0)
    ELSE Flatten([c \in 1..((Len(qq) + 7) \div 8) |-> Cat8(qq, 8 * (c - 1))])

\* The subsequence of q at the positions that satisfy Keep, in order.
RECURSIVE Filter(_, _)
Filter(q, keep) ==
    IF q = <<>> THEN <<>>
    ELSE IF keep[1] THEN <<Head(q)>> \o Filter(Tail(q), Tail(keep))
    ELSE Filter(Tail(q), Tail(keep))

\* -------------------------------------------------------------------- text

\* A text of len characters whose only occurrence of "500" starts at
\* character at (1-based), or holds none when at = 0.
Text(len, at) == [len |-> len, at |-> at]

\* "500" in text
Has500(text) == text.at # 0

\* text[:n]
Prefix(text, n) ==
    [len |-> Min(text.len, n),
     at |-> IF text.at # 0 /\ text.at + 2 <= n THEN text.at ELSE 0]


\* ---------------------------------------------------------- RecordFormatter

\* The input left as it came.
FilterInputKeepAll(raw_input) == raw_input

\* The input of a formatted record: a list loses its messages that are no
\* dict or whose role is "system"; anything else passes through.
FilterInput(raw_input) ==
    IF IsList(raw_input)
    THEN List(Filter(raw_input.v,
                     [i \in 1..Len(raw_input.v) |->
                        /\ IsDict(raw_input.v[i])
                        /\ Get(raw_input.v[i], "role") # Str("system")]))
    ELSE raw_input

\* The user_id of a formatted record: the top-level userID, else metadata's.
ResolveUserId(record) ==
    IF Get(record, "userID") = Null /\ IsDict(Get(record, "metadata"))
    THEN Get(Get(record, "metadata"), "userID")
    ELSE Get(record, "userID")

\* The model of a formatted record: metadata's when metadata is a dict, else
\* the top-level one.
ResolveModel(record) ==
    IF IsDict(Get(record, "metadata"))
    THEN Get(Get(record, "metadata"), "model")
    ELSE Get(record, "model")

ResolveSpanName(record) ==
    IF IsDict(Get(record, "span_attributes"))
    THEN Get(Get(record, "span_attributes"), "name")
    ELSE Null

\* One formatted record of a raw record that is a dict.
FormatRecord(record) ==
    Obj([id |-> Get(record, "id"),
         user_id |-> ResolveUserId(record),
         input |-> FilterInput(Get(record, "input")),
         output |-> Get(record, "output"),
         model |-> ResolveModel(record),
         created |-> Get(record, "created"),
         span_name |-> ResolveSpanName(record),
         metadata |-> GetOr(record, "metadata", EmptyObj)])

\* format_log_records raises on data that is no list (iterating None) and on
\* an element that is no dict (record.get); neither message holds "500".
FormatRaises(data) ==
    \/ ~IsList(data)
    \/ \E i \in 1..Len(data.v) : ~IsDict(data.v[i])

\* format_log_records(records) where it does not raise: a sequence.
format_log_records(data) == [i \in 1..Len(data.v) |-> FormatRecord(data.v[i])]

\* ------------------------------------------------------ json.dump, json.load

\* The keys of every object the tools write, in the order they are written.
KeyOrder ==
    <<"query_executed", "sample_size", "record_count", "total_available",
      "records", "sampling_info", "requested", "returned", "date_range_hours",
      "model_filter", "pagination_note", "retries", "error",
      "id", "user_id", "userID", "input", "output", "model", "created",
      "span_name", "span_attributes", "name", "metadata", "role", "content">>

\* One token of a text written with indent=2: its nesting depth (the
\* indentation of its line), its kind and its payload.
Tok(d, k, p) == <<d, k, p>>

\* The keys of an object in the order they are written.
KeysOf(x) == SelectSeq(KeyOrder, LAMBDA k : k \in DOMAIN x.v)

RECURSIVE DumpAt(_, _)
\* The text of a value written at nesting depth d.
DumpAt(x, d) ==
    CASE x.t = "null" -> <<Tok(d, "null", "")>>
      [] x.t \in {"str", "num", "bool", "text"} -> <<Tok(d, x.t, x.v)>>
      [] x.t = "list" ->
           <<Tok(d, "[", "")>>
           \o Flatten([i \in 1..Len(x.v) |-> DumpAt(x.v[i], d + 1)])
           \o <<Tok(d, "]", "")>>
      [] x.t = "obj" ->
           <<Tok(d, "{", "")>>
           \o Flatten([i \in 1..Len(KeysOf(x)) |->
                         <<Tok(d + 1, "key", KeysOf(x)[i])>>
                         \o DumpAt(x.v[KeysOf(x)[i]], d + 1)])
           \o <<Tok(d, "}", "")>>

\* json.dump: the text of a value, as its sequence of tokens.
Dump(x) == DumpAt(x, 0)

ParseFail == [ok |-> FALSE, val |-> Null]

Scalars == {"null", "str", "num", "bool", "text"}

\* The positions lo+1 .. hi-1 in order.
Inner(lo, hi) == [j \in 1..(hi - lo - 1) |-> lo + j]

RECURSIVE ParseSpan(_, _, _)
\* The value that the tokens lo..hi are the whole text of.  A scalar is one
\* token; a list or an object runs from its opening bracket to the closing
\* one at the same depth, its items start at the tokens one level deeper
\* (the elements of a list, the keys of an object), and each item runs up
\* to the next one.
ParseSpan(toks, lo, hi) ==
    IF lo > hi THEN ParseFail
    ELSE LET d == toks[lo][1]
             k == toks[lo][2]
         IN
         IF k \in Scalars
         THEN IF lo # hi THEN ParseFail
              ELSE [ok |-> TRUE,
                    val |-> IF k = "null" THEN Null ELSE [t |-> k, v |-> toks[lo][3]]]
         ELSE IF k \notin {"[", "{"} \/ lo = hi THEN ParseFail
         ELSE IF toks[hi] # Tok(d, IF k = "[" THEN "]" ELSE "}", "") THEN ParseFail
         ELSE
         LET starts ==
                 SelectSeq(Inner(lo, hi),
                           LAMBDA j : /\ toks[j][1] = d + 1
                                      /\ IF k = "[" THEN toks[j][2] \in Scalars \cup {"[", "{"}
                                         ELSE toks[j][2] = "key")
             n == Len(starts)
             items ==
                 [e \in 1..n |->
                     ParseSpan(toks,
                               IF k = "[" THEN starts[e] ELSE starts[e] + 1,
                               IF e = n THEN hi - 1 ELSE starts[e + 1] - 1)]
         IN
         IF \/ \E j \in (lo + 1)..(hi - 1) : toks[j][1] <= d
            \/ n = 0 /\ hi > lo + 1
            \/ n > 0 /\ starts[1] # lo + 1
            \/ \E e \in 1..Len(items) : ~items[e].ok
         THEN ParseFail
         ELSE IF k = "[" THEN [ok |-> TRUE, val |-> List([e \in 1..n |-> items[e].val])]
         ELSE [ok |-> TRUE,
               val |-> Obj([key \in {toks[starts[e]][3] : e \in 1..n} |->
                              LET last == CHOOSE e \in 1..n :
                                              /\ toks[starts[e]][3] = key
                                              /\ \A f \in (e + 1)..n : toks[starts[f]][3] # key
                              IN items[last].val])]

\* A loader that takes an empty file for an empty document.
LoadEmpty(toks) ==
    IF toks = <<>> THEN [ok |-> TRUE, val |-> EmptyObj] ELSE ParseSpan(toks, 1, Len(toks))

\* json.load: the value of a whole text, or a failure (JSONDecodeError) when
\* the text is no complete value.
Load(toks) == ParseSpan(toks, 1, Len(toks))

\* ------------------------------------------------------------ QueryBuilder

PROJECT_ID == "ec6cb39d-161d-4669-953f-444fd5c386f6"

\* A query text is a sequence of lines.  A line has its keyword as written
\* (with the colon), its text, the predicates of a built filter and the
\* number of a built limit.
Line(kw, txt, preds, n) == [kw |-> kw, txt |-> txt, preds |-> preds, n |-> n]

\* One predicate of a filter: its wording and the values put into it.
Atom(tpl, args) == [tpl |-> tpl, args |-> args]

FromLine == Line("from:", PROJECT_ID, <<>>, 0)

LimitLine(limit) == Line("limit:", "", <<>>, limit)

BlankLine == Line("", "", <<>>, 0)

\* build_model_filter without its named cases: every string is a substring.
ModelFilterLikeOnly(model_filter) ==
    IF model_filter = Null THEN <<>>
    ELSE <<Atom("metadata.model LIKE '%_%'", <<model_filter>>)>>

\* build_model_filter: the predicates of the model clause (none for None).
build_model_filter(model_filter) ==
    IF model_filter = Null THEN <<>>
    ELSE IF model_filter = Str("mini")
    THEN <<Atom("metadata.model LIKE '%_%'", <<Str("mini")>>)>>
    ELSE IF model_filter = Str("NOT mini")
    THEN <<Atom("metadata.model NOT LIKE '%_%'", <<Str("mini")>>),
           Atom("metadata.model IS NOT NULL", <<>>)>>
    ELSE IF model_filter = Str("gpt-5")
    THEN <<Atom("metadata.model LIKE '%_%'", <<Str("gpt-5")>>)>>
    ELSE <<Atom("metadata.model LIKE '%_%'", <<model_filter>>)>>

\* build_additional_filters keeping the first pair alone.
AdditionalFiltersFirst(additional_filters) ==
    IF additional_filters = Null \/ additional_filters = List(<<>>) THEN <<>>
    ELSE <<Atom("_ = _", <<Str(additional_filters.v[1][1]), additional_filters.v[1][2]>>)>>

\* build_additional_filters: one equality per (field, value) pair, quoted
\* for a string value.  The filters are None or a sequence of pairs.
build_additional_filters(additional_filters) ==
    IF additional_filters = Null \/ additional_filters = List(<<>>) THEN <<>>
    ELSE [i \in 1..Len(additional_filters.v) |->
            LET fv == additional_filters.v[i] IN
            IF fv[2].t = "str"
            THEN Atom("_ = '_'", <<Str(fv[1]), fv[2]>>)
            ELSE Atom("_ = _", <<Str(fv[1]), fv[2]>>)]

SelectClause ==
    "input, output, metadata.model, metadata.userID, created, id, span_attributes.name"

\* build_fetch_logs_query: the four lines of the query.
build_fetch_logs_query(model_filter, hours_back, exclude_first_hours, span_name_filter, additional_filters, limit) ==
    LET base == <<<<Atom("span_attributes.name LIKE '%_%'", <<Str(span_name_filter)>>)>>,
                  <<Atom("created < now() - interval _ hour", <<Num(exclude_first_hours)>>)>>,
                  <<Atom("created > now() - interval _ hour", <<Num(hours_back)>>)>>,
                  <<Atom("output IS NOT NULL", <<>>)>>,
                  <<Atom("output != ''", <<>>)>>,
                  <<Atom("metadata.userID IS NOT NULL", <<>>)>> >>
        mf == build_model_filter(model_filter)
        af == build_additional_filters(additional_filters)
        parts == base \o (IF mf # <<>> THEN <<mf>> ELSE <<>>)
                      \o (IF af # <<>> THEN <<af>> ELSE <<>>)
    IN <<FromLine,
         Line("select:", SelectClause, <<>>, 0),
         Line("filter:", "", Flatten(parts), 0),
         LimitLine(limit)>>

\* ----------------------------------------------------- custom query texts

\* keyword.lower()
Lower(kw) ==
    CASE kw \in {"FROM:", "From:"} -> "from:"
      [] kw \in {"LIMIT:", "Limit:"} -> "limit:"
      [] OTHER -> kw

\* The texts of a line that hold "from:" or "limit:" inside a literal.
QuotesFrom == {"input LIKE '%from: support%'"}

QuotesLimit == {"output LIKE '%rate limit: exceeded%'"}

\* "FROM:" in query or "from:" in query.lower()
ContainsFrom(query) ==
    \/ \E i \in 1..Len(query) : query[i].kw = "FROM:"
    \/ \E i \in 1..Len(query) :
          Lower(query[i].kw) = "from:" \/ query[i].txt \in QuotesFrom

\* "LIMIT:" in query or "limit:" in query.lower()
ContainsLimit(query) ==
    \/ \E i \in 1..Len(query) : query[i].kw = "LIMIT:"
    \/ \E i \in 1..Len(query) :
          Lower(query[i].kw) = "limit:" \/ query[i].txt \in QuotesLimit

\* The query execute_custom_btql sends: the caller's text, a from line added
\* after it when the text holds no "from:", then a limit line added when the
\* text holds no "limit:".
PrepareCustom(query, limit) ==
    LET modified_query ==
            IF ContainsFrom(query) THEN query ELSE Append(query, FromLine)
    IN IF ~ContainsLimit(modified_query)
       THEN Append(modified_query, LimitLine(limit))
       ELSE modified_query

RECURSIVE LStrip(_)
LStrip(q) == IF q # <<>> /\ Head(q) = BlankLine THEN LStrip(Tail(q)) ELSE q

RECURSIVE RStrip(_)
RStrip(q) ==
    IF q # <<>> /\ q[Len(q)] = BlankLine THEN RStrip(SubSeq(q, 1, Len(q) - 1)) ELSE q

\* text.strip(): the text without the blank lines at its ends.
Strip(q) == RStrip(LStrip(q))

\* ----------------------------------------------------------- QueryExecutor

\* An error: its type, whether str(e) holds "500", and the body excerpt a
\* failed query's message carries.
Err(name, has500, excerpt) == [name |-> name, has500 |-> has500, excerpt |-> excerpt]

NoText == Text(0, 0)

\* A credential test that takes the empty string for a credential.
NoCredentialNoneOnly(key) == key = "None"

\* not BRAINTRUST_API_KEY
NoCredential(key) == key \in {"None", ""}

\* The content types that hold 'application/json', and those that hold "500".
JsonTypes == {"application/json", "application/json; charset=utf-8"}

Types500 == {"text/plain; boundary=500"}

\* execute_btql_query(query) when the backend's answer to a request would be
\* resp: the outcome and the number of requests issued.  resp is a network
\* fault (requests.post raises) or a completed HTTP response.
execute_btql_query(key, resp) ==
    IF NoCredential(key)
    THEN [ok |-> FALSE, val |-> Null, requests |-> 0,
          err |-> Err("ValueError", FALSE, NoText)]
    ELSE IF resp.kind = "fault"
    THEN [ok |-> FALSE, val |-> Null, requests |-> 1,
          err |-> Err("RequestException", resp.has500, NoText)]
    ELSE IF resp.status # HttpOk
    THEN [ok |-> FALSE, val |-> Null, requests |-> 1,
          err |-> Err("BackendQueryFailed",
                      resp.status = 500 \/ Has500(Prefix(resp.body, PreviewLen)),
                      Prefix(resp.body, PreviewLen))]
    ELSE IF resp.ctype \notin JsonTypes
    THEN [ok |-> FALSE, val |-> Null, requests |-> 1,
          err |-> Err("UnexpectedContentType",
                      resp.ctype \in Types500 \/ Has500(Prefix(resp.body, PreviewLen)),
                      NoText)]
    ELSE IF ~resp.json.ok
    THEN [ok |-> FALSE, val |-> Null, requests |-> 1,
          err |-> Err("JSONDecodeError", resp.json.has500, NoText)]
    ELSE [ok |-> TRUE, val |-> resp.json.val, requests |-> 1,
          err |-> Err("", FALSE, NoText)]

\* ------------------------------------------------------------- file names

\* A file name is the sequence of its parts; <<>> is None (no name given).
EndsJson(fname) == fname # <<>> /\ fname[Len(fname)] = ".json"

\* if not filename.endswith(".json"): filename += ".json"
EnsureJson(fname) == IF EndsJson(fname) THEN fname ELSE Append(fname, ".json")

\* The parts of a name that hold "500".
Parts500 == {"r500"}

Name500(fname) == \E i \in 1..Len(fname) : fname[i] \in Parts500

\* f"logs_{model_str}_{timestamp}.json"
AutoName(model_str, timestamp) == <<"logs_", model_str, "_", timestamp, ".json">>

\* ------------------------------------------------------------ Python slices

\* q[lo:hi] as Python computes it: a negative index counts from the end, and
\* both are clamped to 0..len(q).
PySlice(q, lo, hi) ==
    LET n == Len(q)
        l == IF lo < 0 THEN Max(lo + n, 0) ELSE Min(lo, n)
        h == IF hi < 0 THEN Max(hi + n, 0) ELSE Min(hi, n)
    IN SubSeq(q, l + 1, h)

\* ------------------------------------------------------------------ inputs

RawA ==
    Obj([id |-> Str("a"),
         input |-> List(<<Obj([role |-> Str("system"), content |-> Str("be kind")]),
                          Obj([role |-> Str("user"), content |-> Str("hi")])>>),
         output |-> Str("hello"),
         metadata |-> Obj([model |-> Str("gpt-5-mini"), userID |-> Str("u1")]),
         created |-> Str("d1"),
         span_attributes |-> Obj([name |-> Str("chat")])])

RawB ==
    Obj([id |-> Str("b"), userID |-> Str("u2"), model |-> Str("gpt-5"),
         input |-> Str("plain"), output |-> Obj([content |-> Str("o")])])

\* A backend result of n records, and the big one of records that differ
\* in their id alone.
RawSeq(n) == [i \in 1..n |-> IF i % 2 = 1 THEN RawA ELSE RawB]

BigData == [i \in 1..BigLen |-> Obj([id |-> Num(i)])]

\* The data of a backend answer; the last holds an element that is no dict.
DataSets == {RawSeq(n) : n \in 0..MaxRecs} \cup {BigData} \cup {<<RawA, Str("junk")>>}

\* The parsed bodies of a JSON answer: with data, without, with null data,
\* and a body that is no object.
JsonBodies ==
    {Obj([data |-> List(d)]) : d \in DataSets}
    \cup {EmptyObj, Obj([data |-> Null]), List(<<>>)}

Resp(kind, has500, status, ctype, body, json) ==
    [kind |-> kind, has500 |-> has500, status |-> status, ctype |-> ctype,
     body |-> body, json |-> json]

NoJson == [ok |-> FALSE, val |-> Null, has500 |-> FALSE]

\* What the backend may answer: a network fault, a failed status, a success
\* that is no JSON, a JSON body that does not parse, a JSON body.
Responses ==
    {Resp("fault", h, 0, "", NoText, NoJson) : h \in BOOLEAN}
    \cup {Resp("http", FALSE, 500, "text/html", Text(20, 0), NoJson),
          Resp("http", FALSE, 404, "text/html", Text(20, 0), NoJson),
          Resp("http", FALSE, 404, "text/html", Text(300, 10), NoJson),
          Resp("http", FALSE, 404, "text/html", Text(300, 250), NoJson),
          Resp("http", FALSE, 200, "text/html", Text(20, 0), NoJson),
          Resp("http", FALSE, 200, "text/html", Text(300, 5), NoJson),
          Resp("http", FALSE, 200, "text/plain; boundary=500", Text(20, 0), NoJson)}
    \cup {Resp("http", FALSE, 200, "application/json", Text(20, 0),
               [ok |-> FALSE, val |-> Null, has500 |-> h]) : h \in BOOLEAN}
    \cup {Resp("http", FALSE, 200, "application/json; charset=utf-8", Text(20, 0),
               [ok |-> TRUE, val |-> b, has500 |-> FALSE]) : b \in JsonBodies}

ApiKeys == {"None", "", "sk-key"}

ModelFilters == {Null, Str("mini")}

SampleSizes == {SizeCap, SizeCap + 1}

\* The file names a caller gives; <<>> is None.
GivenNames == {<<>>, <<"a">>, <<"r500", ".json">>}

Timestamps == {"20251105_101500"}

\* ------------------------------------------------------------------- state

VARIABLES
    apiKey,     \* BRAINTRUST_API_KEY, read once at import
    files,      \* the disk: file name -> its text (a token sequence)
    pc,         \* the place of the call in progress
    call,       \* the arguments and locals of the call in progress
    result,     \* what the last call returned
    trace,      \* what the call in progress has done so far
    slept,      \* the time units the call in progress has slept
    requests,   \* the HTTP requests the call in progress has issued
    sent,       \* the query texts handed to execute_btql_query by this call
    disk0,      \* the disk as it was when the call in progress started
    written     \* the last completed write: the file and the records written

vars ==
    <<apiKey, files, pc, call, result, trace, slept, requests, sent, disk0,
      written>>

Ev(ev, has500) == [ev |-> ev, has500 |-> has500]

NoCall == [tool |-> "none"]

NoWrite == [fname |-> <<>>, records |-> <<>>]

\* Path(filename).exists()
Exists(fname) == fname \in DOMAIN files

Init ==
    /\ apiKey \in ApiKeys
    /\ files = <<>>
    /\ pc = "idle"
    /\ call = NoCall
    /\ result = Null
    /\ trace = <<>>
    /\ slept = 0
    /\ requests = 0
    /\ sent = <<>>
    /\ disk0 = <<>>
    /\ written = NoWrite

\* A run is one call of fetch, save or custom query on an empty disk, and
\* the read that follows it: the calls share nothing but the disk, and a
\* read leaves the disk as it is.  A call starts when none is in progress.
CanStart == pc \in {"idle", "done"} /\ call.tool # "read"

\* A call other than a read starts.
StartTool ==
    /\ pc = "idle"
    /\ disk0' = files

\* Nothing of the call has happened yet.
Fresh ==
    /\ result' = Null
    /\ trace' = <<>>
    /\ slept' = 0
    /\ requests' = 0
    /\ sent' = <<>>

\* -------------------------------------------------------------- fetch_logs

\* The limit of the query: the sample size, capped.
ActualLimit(sample_size) == IF sample_size > SizeCap THEN SizeCap ELSE sample_size

\* The note on a capped sample size, None otherwise.
PaginationNote(sample_size) ==
    IF sample_size > SizeCap THEN QText(<<"Requested", sample_size>>) ELSE Null

\* attempt if attempt > 0 else None
Retries(attempt) == IF attempt > 0 THEN Num(attempt) ELSE Null

\* str(e) as a payload holds it.
ErrVal(err) == [t |-> "error", v |-> err]

\* A document that leaves out the last of the formatted records.
FullDataShort(c, records, formatted_records) ==
    Obj([query_executed |-> QText(c.query),
         sample_size |-> Num(c.sample_size),
         total_available |-> Num(Len(records)),
         records |-> List(SubSeq(formatted_records, 1, Len(formatted_records) - 1)),
         sampling_info |->
             Obj([requested |-> Num(c.sample_size),
                  returned |-> Num(Len(formatted_records)),
                  date_range_hours |-> QText(<<c.hours_back, c.exclude_first_hours>>),
                  model_filter |-> c.model_filter,
                  pagination_note |-> c.pagination_note,
                  retries |-> Retries(c.attempt)])])

\* The document a fetch saves, and returns when it does not save.
FullData(c, records, formatted_records) ==
    Obj([query_executed |-> QText(c.query),
         sample_size |-> Num(c.sample_size),
         total_available |-> Num(Len(records)),
         records |-> List(formatted_records),
         sampling_info |->
             Obj([requested |-> Num(c.sample_size),
                  returned |-> Num(Len(formatted_records)),
                  date_range_hours |-> QText(<<c.hours_back, c.exclude_first_hours>>),
                  model_filter |-> c.model_filter,
                  pagination_note |-> c.pagination_note,
                  retries |-> Retries(c.attempt)])])

\* A summary that carries the records too.
FetchSummaryWithRecords(c, file_size) ==
    Obj([status |-> Str("success"),
         file_path |-> Path(c.filename),
         filename |-> Name(c.filename),
         record_count |-> Num(Len(c.formatted_records)),
         file_size_bytes |-> Num(file_size),
         records |-> List(c.formatted_records),
         sampling_info |->
             Obj([requested |-> Num(c.sample_size),
                  returned |-> Num(Len(c.formatted_records)),
                  model_filter |-> c.model_filter,
                  retries |-> Retries(c.attempt)]),
         message |-> QText(<<"Saved", Len(c.formatted_records), c.filename>>)])

\* The summary a fetch returns after it saved the document.
FetchSummary(c, file_size) ==
    Obj([status |-> Str("success"),
         file_path |-> Path(c.filename),
         filename |-> Name(c.filename),
         record_count |-> Num(Len(c.formatted_records)),
         file_size_bytes |-> Num(file_size),
         sampling_info |->
             Obj([requested |-> Num(c.sample_size),
                  returned |-> Num(Len(c.formatted_records)),
                  model_filter |-> c.model_filter,
                  retries |-> Retries(c.attempt)]),
         message |-> QText(<<"Saved", Len(c.formatted_records), c.filename>>)])

\* What a fetch returns when its attempts are over.
FetchError(c, last_error) ==
    Obj([error |-> ErrVal(last_error),
         query_executed |-> QText(c.query),
         sample_size |-> Num(c.sample_size),
         records |-> List(<<>>),
         sampling_info |->
             Obj([requested |-> Num(c.sample_size),
                  returned |-> Num(0),
                  error |-> ErrVal(last_error),
                  retries_attempted |-> Num(MaxRetries - 1)])])

\* A retry policy that retries every failure.
ShouldRetryAny(err, attempt) == attempt < MaxRetries - 1

\* "500" in last_error and attempt < max_retries - 1
ShouldRetry(err, attempt) == err.has500 /\ attempt < MaxRetries - 1

\* except Exception as e: sleep and go round again, or leave the loop and
\* return the error payload.
FetchExcept(tr, err) ==
    /\ trace' = Append(tr, Ev("fail", err.has500))
    /\ IF ShouldRetry(err, call.attempt)
       THEN /\ pc' = "f_sleep"
            /\ call' = [call EXCEPT !.last_error = err]
            /\ UNCHANGED result
       ELSE /\ pc' = "done"
            /\ call' = [call EXCEPT !.last_error = err]
            /\ result' = FetchError(call, err)

\* The call arrives: the limit is resolved and the query built.
FetchStart(model_filter, sample_size, auto_save_to_file, filename) ==
    /\ StartTool
    /\ Fresh
    /\ pc' = "f_try"
    /\ call' = [tool |-> "fetch",
                model_filter |-> model_filter,
                sample_size |-> sample_size,
                hours_back |-> 48,
                exclude_first_hours |-> 1,
                auto_save_to_file |-> auto_save_to_file,
                filename |-> filename,
                actual_limit |-> ActualLimit(sample_size),
                pagination_note |-> PaginationNote(sample_size),
                query |-> build_fetch_logs_query(model_filter, 48, 1, "chat", Null,
                                                 ActualLimit(sample_size)),
                attempt |-> 0,
                last_error |-> Err("", FALSE, NoText),
                formatted_records |-> <<>>,
                full_data |-> Null,
                pos |-> 0]
    /\ UNCHANGED <<apiKey, files, written>>

\* One pass of the loop up to the save: the query is executed, its data
\* taken and formatted; without auto-save the document is returned.
FetchAttempt(resp, timestamp) ==
    /\ pc = "f_try"
    /\ LET out == execute_btql_query(apiKey, resp)
           records == GetOr(out.val, "data", List(<<>>))
           formatted == format_log_records(records)
           fname == EnsureJson(IF call.filename = <<>>
                               THEN AutoName(IF call.model_filter # Null
                                             THEN call.model_filter.v ELSE "all",
                                             timestamp)
                               ELSE call.filename)
           tr == Append(trace, Ev("exec", FALSE))
       IN /\ requests' = requests + out.requests
          /\ sent' = Append(sent, call.query)
          /\ IF ~out.ok
             THEN FetchExcept(tr, out.err)
             ELSE IF ~IsDict(out.val)
             THEN FetchExcept(tr, Err("AttributeError", FALSE, NoText))
             ELSE IF FormatRaises(records)
             THEN FetchExcept(tr, Err("TypeError", FALSE, NoText))
             ELSE IF call.auto_save_to_file
             THEN /\ pc' = "f_open"
                  /\ call' = [call EXCEPT
                                !.filename = fname,
                                !.formatted_records = formatted,
                                !.full_data = FullData(call, records.v, formatted)]
                  /\ trace' = tr
                  /\ UNCHANGED result
             ELSE /\ pc' = "done"
                  /\ call' = [call EXCEPT !.formatted_records = formatted]
                  /\ result' = FullData(call, records.v, formatted)
                  /\ trace' = Append(tr, Ev("return", FALSE))
    /\ UNCHANGED <<apiKey, files, slept, disk0, written>>

\* time.sleep(1); continue
FetchSleep ==
    /\ pc = "f_sleep"
    /\ pc' = "f_try"
    /\ slept' = slept + SleepUnits
    /\ call' = [call EXCEPT !.attempt = call.attempt + 1]
    /\ trace' = Append(trace, Ev("sleep", FALSE))
    /\ UNCHANGED <<apiKey, files, result, requests, sent, disk0, written>>

\* open(filepath, "w"): the file is created or emptied, or the open fails
\* with an error that names the file.
FetchOpen(fails) ==
    /\ pc = "f_open"
    /\ IF fails
       THEN /\ FetchExcept(trace, Err("OSError", Name500(call.filename), NoText))
            /\ UNCHANGED <<files, written>>
       ELSE /\ files' = (call.filename :> <<>>) @@ files
            /\ written' = IF written.fname = call.filename THEN NoWrite ELSE written
            /\ pc' = "f_write"
            /\ call' = [call EXCEPT !.pos = 0]
            /\ UNCHANGED <<result, trace>>
    /\ UNCHANGED <<apiKey, slept, requests, sent, disk0>>

\* The text left to write after pos tokens, cut to one flush.
NextFlush(text, pos) == SubSeq(text, pos + 1, Min(pos + FlushToks, Len(text)))

\* json.dump(full_data, f): the next flush reaches the file, or fails (the
\* disk is full) and leaves what was written; after the last one the file
\* is closed, its size taken and the summary returned.
FetchWrite(fails) ==
    /\ pc = "f_write"
    /\ LET text == Dump(call.full_data)
           data == files[call.filename] \o NextFlush(text, call.pos)
           pos == call.pos + Len(NextFlush(text, call.pos))
       IN IF fails
          THEN /\ FetchExcept(trace, Err("OSError", FALSE, NoText))
               /\ UNCHANGED <<files, written>>
          ELSE /\ files' = [files EXCEPT ![call.filename] = data]
               /\ IF pos = Len(text)
                  THEN /\ pc' = "done"
                       /\ call' = [call EXCEPT !.pos = pos]
                       /\ result' = FetchSummary(call, Len(data))
                       /\ trace' = Append(trace, Ev("return", FALSE))
                       /\ written' = [fname |-> call.filename,
                                      records |-> call.formatted_records]
                  ELSE /\ pc' = "f_write"
                       /\ call' = [call EXCEPT !.pos = pos]
                       /\ UNCHANGED <<result, trace, written>>
    /\ UNCHANGED <<apiKey, slept, requests, sent, disk0>>

FetchNext ==
    \/ \E mf \in ModelFilters, n \in SampleSizes, save \in BOOLEAN, fname \in GivenNames :
          FetchStart(mf, n, save, fname)
    \/ \E resp \in Responses, ts \in Timestamps : FetchAttempt(resp, ts)
    \/ FetchSleep
    \/ \E fails \in BOOLEAN : FetchOpen(fails)
    \/ \E fails \in BOOLEAN : FetchWrite(fails)

\* ------------------------------------------------------- save_logs_to_file

\* The documents a caller hands to the save tool: what a fetch without
\* auto-save returned, a document with no records field, one whose records
\* are null.
SavedCall ==
    [query |-> build_fetch_logs_query(Null, 48, 1, "chat", Null, SizeCap),
     sample_size |-> SizeCap, hours_back |-> 48, exclude_first_hours |-> 1,
     model_filter |-> Null, pagination_note |-> Null, attempt |-> 0]

SaveDocs ==
    {FullData(SavedCall, d, format_log_records(List(d))) :
        d \in {RawSeq(n) : n \in 0..MaxRecs} \cup {BigData}}
    \cup {EmptyObj, Obj([records |-> Null])}

\* logs_data.get("sampling_info", {}).get("model_filter", "all"), formatted
SaveModelStr(logs_data) ==
    LET mf == GetOr(GetOr(logs_data, "sampling_info", EmptyObj), "model_filter", Str("all"))
    IN IF mf = Null THEN "None" ELSE mf.v

SaveError(err) == Obj([status |-> Str("error"), error |-> ErrVal(err)])

\* len(logs_data.get("records", [])) raises on records that are null.
SaveCountRaises(logs_data) == ~IsList(GetOr(logs_data, "records", List(<<>>)))

SaveSuccess(c, file_size) ==
    LET record_count == Len(GetOr(c.logs_data, "records", List(<<>>)).v)
    IN Obj([status |-> Str("success"),
            file_path |-> Path(c.filename),
            record_count |-> Num(record_count),
            file_size_bytes |-> Num(file_size),
            message |-> QText(<<"Saved", record_count, c.filename>>)])

\* The call arrives and the file name is settled.
SaveStart(logs_data, filename, timestamp) ==
    /\ StartTool
    /\ Fresh
    /\ pc' = "s_open"
    /\ call' = [tool |-> "save",
                logs_data |-> logs_data,
                filename |-> EnsureJson(IF filename = <<>>
                                        THEN AutoName(SaveModelStr(logs_data), timestamp)
                                        ELSE filename),
                pos |-> 0]
    /\ UNCHANGED <<apiKey, files, written>>

\* open(filepath, "w") in the save tool.
SaveOpen(fails) ==
    /\ pc = "s_open"
    /\ IF fails
       THEN /\ pc' = "done"
            /\ result' = SaveError(Err("OSError", Name500(call.filename), NoText))
            /\ trace' = Append(trace, Ev("fail", Name500(call.filename)))
            /\ UNCHANGED <<files, written>>
       ELSE /\ files' = (call.filename :> <<>>) @@ files
            /\ written' = IF written.fname = call.filename THEN NoWrite ELSE written
            /\ pc' = "s_write"
            /\ UNCHANGED <<result, trace>>
    /\ UNCHANGED <<apiKey, call, slept, requests, sent, disk0>>

\* json.dump(logs_data, f) in the save tool, one flush at a time; after the
\* last one the size and the record count are taken.
SaveWrite(fails) ==
    /\ pc = "s_write"
    /\ LET text == Dump(call.logs_data)
           data == files[call.filename] \o NextFlush(text, call.pos)
           pos == call.pos + Len(NextFlush(text, call.pos))
       IN IF fails
          THEN /\ pc' = "done"
               /\ result' = SaveError(Err("OSError", FALSE, NoText))
               /\ trace' = Append(trace, Ev("fail", FALSE))
               /\ UNCHANGED <<files, written, call>>
          ELSE /\ files' = [files EXCEPT ![call.filename] = data]
               /\ call' = [call EXCEPT !.pos = pos]
               /\ IF pos < Len(text)
                  THEN /\ pc' = "s_write"
                       /\ UNCHANGED <<result, trace, written>>
                  ELSE /\ pc' = "done"
                       /\ written' =
                            IF SaveCountRaises(call.logs_data) THEN NoWrite
                            ELSE [fname |-> call.filename,
                                  records |-> GetOr(call.logs_data, "records",
                                                    List(<<>>)).v]
                       /\ IF SaveCountRaises(call.logs_data)
                          THEN /\ result' = SaveError(Err("TypeError", FALSE, NoText))
                               /\ trace' = Append(trace, Ev("fail", FALSE))
                          ELSE /\ result' = SaveSuccess(call, Len(data))
                               /\ trace' = Append(trace, Ev("return", FALSE))
    /\ UNCHANGED <<apiKey, slept, requests, sent, disk0>>

SaveNext ==
    \/ \E d \in SaveDocs, fname \in GivenNames, ts \in Timestamps : SaveStart(d, fname, ts)
    \/ \E fails \in BOOLEAN : SaveOpen(fails)
    \/ \E fails \in BOOLEAN : SaveWrite(fails)

\* ----------------------------------------------------- read_logs_from_file

\* An error payload of a read that holds the error alone.
ReadErrorBare(err) == Obj([error |-> ErrVal(err)])

ReadError(err) ==
    Obj([error |-> ErrVal(err), records |-> List(<<>>), batch_info |-> EmptyObj])

\* A batch whose count is not capped.
ReadBatchNoCap(all_records, filename, start_index, requested) ==
    LET total_records == Len(all_records)
        end_index == Min(start_index + requested, total_records)
        batch == PySlice(all_records, start_index, end_index)
        has_more == end_index < total_records
    IN Obj([records |-> List(batch),
            batch_info |-> Obj([start_index |-> Num(start_index),
                                end_index |-> Num(end_index),
                                count_returned |-> Num(Len(batch)),
                                total_records |-> Num(total_records),
                                filename |-> Name(filename)]),
            has_more |-> Bool(has_more),
            next_start_index |-> IF has_more THEN Num(end_index) ELSE Null])

\* The batch of a parsed document's records.
ReadBatch(all_records, filename, start_index, requested) ==
    LET total_records == Len(all_records)
        count == Min(requested, MaxBatch)
        end_index == Min(start_index + count, total_records)
        batch == PySlice(all_records, start_index, end_index)
        has_more == end_index < total_records
    IN Obj([records |-> List(batch),
            batch_info |-> Obj([start_index |-> Num(start_index),
                                end_index |-> Num(end_index),
                                count_returned |-> Num(Len(batch)),
                                total_records |-> Num(total_records),
                                filename |-> Name(filename)]),
            has_more |-> Bool(has_more),
            next_start_index |-> IF has_more THEN Num(end_index) ELSE Null])

\* read_logs_from_file on a disk: the payload it returns.
read_logs_from_file(disk, filename, start_index, count) ==
    IF filename \notin DOMAIN disk
    THEN ReadError(Err("FileNotFound", Name500(filename), NoText))
    ELSE LET data == Load(disk[filename]) IN
         IF ~data.ok THEN ReadError(Err("JSONDecodeError", FALSE, NoText))
         ELSE IF ~IsDict(data.val) THEN ReadError(Err("AttributeError", FALSE, NoText))
         ELSE IF ~IsList(GetOr(data.val, "records", List(<<>>)))
         THEN ReadError(Err("TypeError", FALSE, NoText))
         ELSE ReadBatch(GetOr(data.val, "records", List(<<>>)).v,
                        filename, start_index, count)

\* The names a reader asks for, the offsets and the counts.
ReadNames == DOMAIN files \cup {<<"missing", ".json">>}

ReadStarts == 0..MaxStart \cup {MaxBatch}

ReadCounts == -1..MaxRecs \cup {MaxBatch, MaxBatch + 1, BigLen}

ReadCall(filename, start_index, count) ==
    /\ CanStart
    /\ disk0' = files
    /\ pc' = "done"
    /\ call' = [tool |-> "read", filename |-> filename,
                start_index |-> start_index, count |-> count]
    /\ result' = read_logs_from_file(files, filename, start_index, count)
    /\ trace' = <<Ev("return", FALSE)>>
    /\ slept' = 0
    /\ requests' = 0
    /\ sent' = <<>>
    /\ UNCHANGED <<apiKey, files, written>>

ReadNext ==
    \E fname \in ReadNames, k \in ReadStarts, c \in ReadCounts : ReadCall(fname, k, c)

\* ----------------------------------------------------- execute_custom_btql

SelectLine == Line("select:", "id, created", <<>>, 0)

\* The texts a caller passes: no source and no limit; its own source and
\* limit; a source in capitals; "from:" inside a literal only; "limit:"
\* inside a literal only; blank lines at the end.
CustomQueries ==
    {<<SelectLine, Line("filter:", "created > now() - interval 1 hour", <<>>, 0)>>,
     <<Line("from:", "project_logs('other')", <<>>, 0), SelectLine, LimitLine(5)>>,
     <<Line("FROM:", "project_logs('other')", <<>>, 0), SelectLine>>,
     <<SelectLine, Line("filter:", "input LIKE '%from: support%'", <<>>, 0)>>,
     <<SelectLine, Line("filter:", "output LIKE '%rate limit: exceeded%'", <<>>, 0)>>,
     <<SelectLine, BlankLine>>}

CustomLimits == {100}

\* An error payload that keeps no record sequence.
CustomErrorBare(query, err) ==
    Obj([error |-> ErrVal(err), query_executed |-> QText(Strip(query))])

CustomError(query, err) ==
    Obj([error |-> ErrVal(err),
         query_executed |-> QText(Strip(query)),
         records |-> List(<<>>),
         record_count |-> Num(0)])

\* A custom query that returns a summary in place of the records.
CustomSuccessSummary(modified_query, records) ==
    Obj([query_executed |-> QText(Strip(modified_query)),
         record_count |-> Num(Len(records.v))])

\* What a custom query returns when it went through.
CustomSuccess(modified_query, records) ==
    Obj([query_executed |-> QText(Strip(modified_query)),
         records |-> records,
         record_count |-> Num(Len(records.v))])

\* execute_custom_btql as a whole: the text is prepared, executed once, and
\* the records returned; every exception becomes an error payload.
CustomCall(query, limit, resp) ==
    /\ StartTool
    /\ slept' = 0
    /\ pc' = "done"
    /\ call' = [tool |-> "custom", query |-> query, limit |-> limit, resp |-> resp]
    /\ LET modified_query == PrepareCustom(query, limit)
           out == execute_btql_query(apiKey, resp)
           records == GetOr(out.val, "data", List(<<>>))
       IN /\ sent' = <<modified_query>>
          /\ requests' = out.requests
          /\ IF ~out.ok
             THEN /\ result' = CustomError(query, out.err)
                  /\ trace' = <<Ev("exec", FALSE), Ev("fail", out.err.has500)>>
             ELSE IF ~IsDict(out.val)
             THEN /\ result' = CustomError(query, Err("AttributeError", FALSE, NoText))
                  /\ trace' = <<Ev("exec", FALSE), Ev("fail", FALSE)>>
             ELSE IF ~IsList(records)
             THEN /\ result' = CustomError(query, Err("TypeError", FALSE, NoText))
                  /\ trace' = <<Ev("exec", FALSE), Ev("fail", FALSE)>>
             ELSE /\ result' = CustomSuccess(modified_query, records)
                  /\ trace' = <<Ev("exec", FALSE), Ev("return", FALSE)>>
    /\ UNCHANGED <<apiKey, files, written>>

CustomNext ==
    \E q \in CustomQueries, limit \in CustomLimits, resp \in Responses :
        CustomCall(q, limit, resp)

\* ----------------------------------------------------------- specification

Next == FetchNext \/ SaveNext \/ ReadNext \/ CustomNext

Spec == Init /\ [][Next]_vars

\* ------------------------------------------------------------ two writers

\* Two calls of the save tool (or two fetches that save), from separate
\* invocations, write their documents to one file name.  Each has its own
\* file object, with its own position in the file; in this specification
\* call holds the locals of both and trace holds who touched the file, in
\* the order of the steps.
Writers == {1, 2}

SharedName == <<"a", ".json">>

\* The documents the writers hold.
WriterDocs ==
    {FullData(SavedCall, d, format_log_records(List(d))) :
        d \in {RawSeq(n) : n \in 0..MaxRecs} \cup {BigData}}

\* The content of a file after chunk is written at the position pos of a
\* file object: what lies before pos stays (a gap past the end reads as NUL
\* characters), chunk replaces what it covers, and what lies past it stays.
WriteAt(content, pos, chunk) ==
    LET padded == content \o [j \in 1..(pos - Len(content)) |-> Tok(0, "nul", "")]
    IN SubSeq(padded, 1, pos) \o chunk
       \o SubSeq(padded, pos + Len(chunk) + 1, Len(padded))

WritersInit ==
    /\ apiKey = "sk-key"
    /\ files = <<>>
    /\ pc = "writers"
    /\ call \in [Writers -> {[pc |-> "open", logs_data |-> d, pos |-> 0] : d \in WriterDocs}]
    /\ result = Null
    /\ trace = <<>>
    /\ slept = 0
    /\ requests = 0
    /\ sent = <<>>
    /\ disk0 = <<>>
    /\ written = NoWrite

\* open(filepath, "w") of writer i: the file is created or emptied; the
\* position of the new file object is 0.
WriterOpen(i) ==
    /\ pc = "writers"
    /\ call[i].pc = "open"
    /\ files' = (SharedName :> <<>>) @@ files
    /\ call' = [call EXCEPT ![i].pc = "write"]
    /\ trace' = Append(trace, [ev |-> "open", w |-> i])
    /\ UNCHANGED <<apiKey, pc, result, slept, requests, sent, disk0, written>>

\* json.dump of writer i, one flush at a time: the flush goes to the file at
\* the position of the writer's file object; after the last one the file
\* object is closed.
WriterWrite(i) ==
    /\ pc = "writers"
    /\ call[i].pc = "write"
    /\ LET text == Dump(call[i].logs_data)
           chunk == NextFlush(text, call[i].pos)
           pos == call[i].pos + Len(chunk)
       IN /\ files' = [files EXCEPT ![SharedName] = WriteAt(@, call[i].pos, chunk)]
          /\ call' = [call EXCEPT ![i].pos = pos,
                                  ![i].pc = IF pos < Len(text) THEN "write" ELSE "closed"]
    /\ trace' = Append(trace, [ev |-> "write", w |-> i])
    /\ UNCHANGED <<apiKey, pc, result, slept, requests, sent, disk0, written>>

WritersNext == \E i \in Writers : WriterOpen(i) \/ WriterWrite(i)

SpecWriters == WritersInit /\ [][WritersNext]_vars

\* ----------------------------------------------- the query builder alone

\* The arguments build_fetch_logs_query is called with: every named model
\* filter, a substring of the caller's and the empty one; filters that are
\* None, empty, one pair and two pairs of a string and a number.
BuilderModelFilters ==
    {Null, Str("mini"), Str("NOT mini"), Str("gpt-5"), Str("claude"), Str("")}

BuilderHours == {24, 48}

BuilderExcludes == {0, 1}

BuilderSpans == {"chat", "tool"}

BuilderFilters ==
    {Null, List(<<>>),
     List(<< <<"metadata.env", Str("prod")>> >>),
     List(<< <<"metadata.env", Str("prod")>>, <<"metadata.turn", Num(3)>> >>)}

BuilderLimits == {1, SizeCap}

BuilderInit ==
    /\ apiKey = "sk-key"
    /\ files = <<>>
    /\ pc = "build"
    /\ call \in [model_filter : BuilderModelFilters,
                 hours_back : BuilderHours,
                 exclude_first_hours : BuilderExcludes,
                 span_name_filter : BuilderSpans,
                 additional_filters : BuilderFilters,
                 limit : BuilderLimits]
    /\ result = Null
    /\ trace = <<>>
    /\ slept = 0
    /\ requests = 0
    /\ sent = <<>>
    /\ disk0 = <<>>
    /\ written = NoWrite

\* The call of build_fetch_logs_query and its return.
BuildQuery ==
    /\ pc = "build"
    /\ pc' = "built"
    /\ result' = [t |-> "query",
                  v |-> build_fetch_logs_query(call.model_filter, call.hours_back,
                                               call.exclude_first_hours,
                                               call.span_name_filter,
                                               call.additional_filters, call.limit)]
    /\ UNCHANGED <<apiKey, files, call, trace, slept, requests, sent, disk0, written>>

BuilderNext == BuildQuery

SpecBuilder == BuilderInit /\ [][BuilderNext]_vars

\* --------------------------------------------- the record formatter alone

\* A record whose input holds an element that is no object, a system
\* message, a message without a role and two ordinary ones, whose metadata
\* is an object without a model, and which has a top-level model.
RawMixed ==
    Obj([id |-> Str("c"),
         input |-> List(<<Str("note"),
                          Obj([role |-> Str("user"), content |-> Str("hi")]),
                          Obj([role |-> Str("system"), content |-> Str("be kind")]),
                          Obj([content |-> Str("bare")]),
                          Obj([role |-> Str("assistant"), content |-> Str("yo")])>>),
         model |-> Str("gpt-5"),
         metadata |-> Obj([userID |-> Str("u1")])])

\* Both places supply both values.
RawBoth ==
    Obj([id |-> Str("d"), userID |-> Str("u2"), model |-> Str("gpt-5"),
         input |-> List(<<>>),
         metadata |-> Obj([userID |-> Str("u1"), model |-> Str("gpt-5-mini")])])

\* Neither place supplies a value.
RawBare == Obj([id |-> Str("e")])

\* Metadata that is no object.
RawMetaText ==
    Obj([id |-> Str("f"), model |-> Str("gpt-5"), metadata |-> Str("m"),
         span_attributes |-> Str("s")])

\* The elements of a backend result; the last two are no objects.
FormatterRecords ==
    {RawA, RawB, RawMixed, RawBoth, RawBare, RawMetaText, Str("junk"), Null}

FormatterInputs ==
    UNION {[1..n -> FormatterRecords] : n \in 0..MaxRecs}

FormatterInit ==
    /\ apiKey = "sk-key"
    /\ files = <<>>
    /\ pc = "format"
    /\ call \in [records : FormatterInputs, formatted_records : {<<>>}]
    /\ result = Null
    /\ trace = <<>>
    /\ slept = 0
    /\ requests = 0
    /\ sent = <<>>
    /\ disk0 = <<>>
    /\ written = NoWrite

\* The record the loop is at.
FormatterAt == Len(call.formatted_records) + 1

\* One pass of the loop: the record is formatted and appended.
FormatStep ==
    /\ pc = "format"
    /\ FormatterAt <= Len(call.records)
    /\ IsDict(call.records[FormatterAt])
    /\ call' = [call EXCEPT !.formatted_records =
                               Append(@, FormatRecord(call.records[FormatterAt]))]
    /\ UNCHANGED <<apiKey, files, pc, result, trace, slept, requests, sent, disk0, written>>

\* record.get on a record that is no dict: AttributeError leaves the
\* function.
FormatRaise ==
    /\ pc = "format"
    /\ FormatterAt <= Len(call.records)
    /\ ~IsDict(call.records[FormatterAt])
    /\ pc' = "raised"
    /\ result' = [t |-> "error", v |-> "AttributeError"]
    /\ UNCHANGED <<apiKey, files, call, trace, slept, requests, sent, disk0, written>>

\* return formatted_records
FormatReturn ==
    /\ pc = "format"
    /\ FormatterAt > Len(call.records)
    /\ pc' = "formatted"
    /\ result' = List(call.formatted_records)
    /\ UNCHANGED <<apiKey, files, call, trace, slept, requests, sent, disk0, written>>

FormatterNext == FormatStep \/ FormatRaise \/ FormatReturn

SpecFormatter == FormatterInit /\ [][FormatterNext]_vars

\* ------------------------------------------------- a caller paging a file

\* The documents on disk and the counts the caller asks for.
PagerDocs ==
    {FullData(SavedCall, d, format_log_records(List(d))) :
        d \in {RawSeq(n) : n \in 0..(MaxRecs + 1)} \cup {BigData}}

PagerCounts == {-1, 0, 1, 2, 3, MaxBatch, MaxBatch + 1}

\* A saved document is on disk; the caller starts at start_index 0.
PagerInit ==
    /\ apiKey = "sk-key"
    /\ \E doc \in PagerDocs : files = [f \in {SharedName} |-> Dump(doc)]
    /\ pc = "page"
    /\ call \in [filename : {SharedName}, count : PagerCounts, start_index : {0},
                 calls : {0}, received : {<<>>}]
    /\ result = Null
    /\ trace = <<>>
    /\ slept = 0
    /\ requests = 0
    /\ sent = <<>>
    /\ disk0 = <<>>
    /\ written = NoWrite

\* One call of read_logs_from_file by the caller: the batch is taken, and
\* while has_more is true the next call starts at next_start_index.
PageCall ==
    /\ pc = "page"
    /\ call.calls < MaxPages
    /\ LET out == read_logs_from_file(files, call.filename, call.start_index, call.count)
           more == Get(out, "has_more") = Bool(TRUE)
       IN /\ result' = out
          /\ call' = [call EXCEPT !.calls = @ + 1,
                                  !.received = @ \o Get(out, "records").v,
                                  !.start_index = IF more
                                                  THEN Get(out, "next_start_index").v
                                                  ELSE @]
          /\ pc' = IF more THEN "page" ELSE "paged"
    /\ UNCHANGED <<apiKey, files, trace, slept, requests, sent, disk0, written>>

PagerNext == PageCall

SpecPager == PagerInit /\ [][PagerNext]_vars

\* ------------------------------------------------------------------ claims

\* The events of a kind in a trace.
Count(tr, ev) == Cardinality({i \in 1..Len(tr) : tr[i].ev = ev})

IsError(payload) == "error" \in DOMAIN payload.v

FetchDone == pc = "done" /\ call.tool = "fetch"

\* C1: a fetch executes its query at most 3 times; a further execution
\* follows only a failure whose message holds "500", made when fewer than 3
\* attempts were made, with one pause of 1 unit in between; a failure
\* without "500" is the last thing the call does (no attempt, no pause after
\* it), and nothing follows a successful attempt.
C1_RetryPolicy ==
    call.tool = "fetch" =>
        /\ Count(trace, "exec") <= 3
        /\ Len(sent) = Count(trace, "exec")
        /\ \A i \in 1..Len(trace) :
              /\ (trace[i].ev = "exec" /\ i > 1) =>
                    /\ i > 3
                    /\ trace[i - 1].ev = "sleep"
                    /\ trace[i - 2].ev = "fail" /\ trace[i - 2].has500
                    /\ Count(SubSeq(trace, 1, i - 1), "exec") < 3
              /\ trace[i].ev = "sleep" => i > 1 /\ trace[i - 1].ev = "fail"
              /\ (trace[i].ev = "fail" /\ ~trace[i].has500) =>
                    i = Len(trace) /\ pc = "done"
              /\ trace[i].ev = "return" => i = Len(trace) /\ pc = "done"
        /\ slept = 1 * Count(trace, "sleep")
        /\ pc = "done" => slept = Count(trace, "exec") - 1

\* A fetch that went through on its third attempt, after two pauses.
C1_Witness ==
    /\ FetchDone
    /\ ~IsError(result)
    /\ Count(trace, "exec") = 3
    /\ slept = 2

\* C10: without a credential no request is issued, and a fetch ends after
\* its one attempt with the missing-credential error, without a pause.
C10_NoCredential ==
    apiKey \in {"None", ""} =>
        /\ requests = 0
        /\ call.tool = "fetch" => pc \in {"f_try", "done"} /\ slept = 0
        /\ FetchDone =>
              /\ trace = <<Ev("exec", FALSE), Ev("fail", FALSE)>>
              /\ IsError(result)
              /\ result.v.error = ErrVal(Err("ValueError", FALSE, NoText))
        /\ (pc = "done" /\ call.tool = "custom") =>
              /\ IsError(result)
              /\ result.v.error = ErrVal(Err("ValueError", FALSE, NoText))

\* A fetch that ended without a credential.
C10_Witness == apiKey = "" /\ FetchDone /\ Count(trace, "exec") = 1

ReadDone == pc = "done" /\ call.tool = "read"

\* A read of the file that the last completed write wrote.
ReadsWritten == ReadDone /\ written.fname # <<>> /\ call.filename = written.fname

\* records[k : e] as the claim writes it: the records at the zero-based
\* places from k up to e, where a negative e counts from the end.
SliceSpec(q, k, e) ==
    LET stop == IF e < 0 THEN e + Len(q) ELSE e
    IN Filter(q, [i \in 1..Len(q) |-> k <= i - 1 /\ i - 1 < stop])

\* C2: a read of a file of N records at offset k with count c returns
\* records[k : min(k+c, N)] in file order, with has_more true exactly when
\* min(k+c, N) < N, where a count above 50 counts as 50 and gives the very
\* result of the request with count 50.
C2_Pagination ==
    ReadsWritten =>
        LET N == Len(written.records)
            k == call.start_index
            c == IF call.count > 50 THEN 50 ELSE call.count
            e == IF k + c < N THEN k + c ELSE N
        IN /\ ~IsError(result)
           /\ result.v.records = List(SliceSpec(written.records, k, e))
           /\ result.v.has_more = Bool(e < N)
           /\ call.count > 50 =>
                 result = read_logs_from_file(files, call.filename, k, 50)

\* A read of the big file from its start with a count above 50: 50 records
\* come back and more are left.
C2_Witness ==
    /\ ReadsWritten
    /\ Len(written.records) > 50
    /\ call.count > 50 /\ call.start_index = 0
    /\ Len(result.v.records.v) = 50
    /\ result.v.has_more = Bool(TRUE)

\* A read of a whole written document: from 0, with the count of its records.
ReadsBack ==
    /\ ReadsWritten
    /\ call.start_index = 0
    /\ call.count = Len(written.records)

\* C3 as stated: reading a written document back from 0 with count = total
\* returns the very records that were written.
C3_RoundTripClaim ==
    ReadsBack => ~IsError(result) /\ result.v.records = List(written.records)

\* C3 as amended: that holds for documents of at most 50 records; of a
\* longer document the read returns the first 50 and reports more.
C3_RoundTrip ==
    ReadsBack =>
        /\ ~IsError(result)
        /\ IF Len(written.records) <= 50
           THEN /\ result.v.records = List(written.records)
                /\ result.v.has_more = Bool(FALSE)
           ELSE /\ result.v.records = List(SubSeq(written.records, 1, 50))
                /\ result.v.has_more = Bool(TRUE)

\* A document of two records read back whole.
C3_Witness == ReadsBack /\ Len(written.records) = 2 /\ Len(result.v.records.v) = 2

\* The limit line of a built query.
LimitOf(query) == query[Len(query)].n

\* A payload that carries a truncation note.
NoteReported(payload) ==
    /\ "sampling_info" \in DOMAIN payload.v
    /\ Get(payload.v.sampling_info, "pagination_note") # Null

\* C4: a fetch of more than 250 records builds its query with the limit 250
\* and its result reports a truncation note; a fetch of 250 or fewer uses
\* the sample size as the limit and reports no note.
C4_SizeCapClaim ==
    FetchDone =>
        /\ \A i \in 1..Len(sent) :
              LimitOf(sent[i]) = IF call.sample_size > 250 THEN 250 ELSE call.sample_size
        /\ ~IsError(result) => (NoteReported(result) <=> call.sample_size > 250)

\* C5: the summary of a fetch that saved its document holds the path, the
\* counts and the size, and no record sequence anywhere.
C5_SummaryOnly ==
    (FetchDone /\ call.auto_save_to_file /\ ~IsError(result)) =>
        /\ DOMAIN result.v = {"status", "file_path", "filename", "record_count",
                              "file_size_bytes", "sampling_info", "message"}
        /\ \A k \in DOMAIN result.v : result.v[k].t # "list"
        /\ DOMAIN result.v.sampling_info.v =
              {"requested", "returned", "model_filter", "retries"}
        /\ \A k \in DOMAIN result.v.sampling_info.v : result.v.sampling_info.v[k].t # "list"
        /\ result.v.file_path = Path(written.fname)
        /\ result.v.record_count = Num(Len(written.records))
        /\ result.v.file_size_bytes = Num(Len(files[written.fname]))
        /\ result.v.sampling_info.v.requested = Num(call.sample_size)
        /\ result.v.sampling_info.v.returned = Num(Len(written.records))

\* A fetch that saved the big result and returned its summary.
C5_Witness ==
    /\ FetchDone /\ call.auto_save_to_file /\ ~IsError(result)
    /\ Len(written.records) > 50

\* C6: a fetch with auto-save ends with the complete document in its file
\* and a success summary, or with an error payload and the disk as the call
\* found it.
C6_NoPartialClaim ==
    (FetchDone /\ call.auto_save_to_file) =>
        \/ /\ ~IsError(result)
           /\ call.filename \in DOMAIN files
           /\ Load(files[call.filename]).ok
           /\ Load(files[call.filename]).val = call.full_data
        \/ /\ IsError(result)
           /\ files = disk0

CustomDone == pc = "done" /\ call.tool = "custom"

DataOf(resp) == GetOr(resp.json.val, "data", List(<<>>))

HasClause(query, kw) == \E i \in 1..Len(query) : Lower(query[i].kw) = kw

\* The query the claim expects: a source clause added to a text that has
\* none, then a limit clause added to a text that has none.
ExpectedCustom(query, limit) ==
    LET q1 == IF HasClause(query, "from:") THEN query ELSE Append(query, FromLine)
    IN IF HasClause(q1, "limit:") THEN q1 ELSE Append(q1, LimitLine(limit))

\* C8: a custom query sends the caller's text with a source clause added
\* when the text has none and a limit clause added when it has none, and
\* executes it once.
C8_InjectionClaim ==
    CustomDone =>
        /\ sent = <<ExpectedCustom(call.query, call.limit)>>
        /\ Count(trace, "exec") = 1
        /\ requests <= 1
        /\ slept = 0

\* The error the claim names for a failure of the executor, "" for none.
FailureOf(key, resp) ==
    CASE key \in {"None", ""} -> "ValueError"
      [] resp.kind = "fault" -> "RequestException"
      [] resp.status # 200 -> "BackendQueryFailed"
      [] resp.ctype \notin {"application/json", "application/json; charset=utf-8"} ->
            "UnexpectedContentType"
      [] ~resp.json.ok -> "JSONDecodeError"
      [] OTHER -> ""

\* C9: every failure of a custom query (no credential, a network fault, a
\* failed status, a body that is no JSON) ends in an error payload with the
\* error, an empty record sequence and the count 0.
C9_CustomErrors ==
    CustomDone =>
        /\ FailureOf(apiKey, call.resp) # "" =>
              /\ IsError(result)
              /\ result.v.error.v.name = FailureOf(apiKey, call.resp)
        /\ IsError(result) =>
              /\ Get(result, "records") = List(<<>>)
              /\ Get(result, "record_count") = Num(0)
              /\ result.v.error.t = "error"
              /\ files = disk0

\* A custom query that met a network fault.
C9_Witness == CustomDone /\ IsError(result) /\ call.resp.kind = "fault" /\ apiKey = "sk-key"


\* C11: a fetch whose attempt met a success answer of a non-JSON
\* content type ends there with the error payload, whatever the body and
\* the content type hold; no pause and no further attempt follow it.
C11_ContentTypeClaim ==
    (call.tool = "fetch" /\ call.last_error.name = "UnexpectedContentType") =>
        /\ pc = "done"
        /\ IsError(result)

\* A custom query that got a completed HTTP response: the executor ran
\* once, with a credential, and the tool shows what it yielded.
Answered == CustomDone /\ apiKey = "sk-key" /\ call.resp.kind = "http"

\* The first two outcomes of the executor for a completed response, in
\* their order: a failed status, then a content type that is no JSON.
FailsEarly(out, resp) ==
    IF resp.status # 200
    THEN /\ ~out.ok
         /\ out.err.name = "BackendQueryFailed"
         /\ out.err.excerpt.len <= 200
         /\ out.err.excerpt.len = IF resp.body.len > 200 THEN 200 ELSE resp.body.len
    ELSE /\ ~out.ok
         /\ out.err.name = "UnexpectedContentType"

JsonType(resp) ==
    resp.ctype \in {"application/json", "application/json; charset=utf-8"}

\* C12: a completed response gives BackendQueryFailed with an
\* excerpt of at most 200 characters, else UnexpectedContentType, else the
\* parsed JSON body; one request is issued.
C12_ThreeOutcomesClaim ==
    Answered =>
        LET out == execute_btql_query(apiKey, call.resp) IN
        /\ requests = 1 /\ Count(trace, "exec") = 1
        /\ IF call.resp.status # 200 \/ ~JsonType(call.resp)
           THEN FailsEarly(out, call.resp) /\ result.v.error = ErrVal(out.err)
           ELSE out.ok /\ out.val = call.resp.json.val

\* C13: a read returns a payload and leaves the disk as it found it; for
\* a name that is no file the payload holds the file-not-found error and an
\* empty record sequence.
C13_ReadMissing ==
    ReadDone =>
        /\ result.t = "obj"
        /\ files = disk0
        /\ call.filename \notin DOMAIN files =>
              /\ IsError(result)
              /\ result.v.error.v.name = "FileNotFound"
              /\ Get(result, "records") = List(<<>>)

\* A read of a name that is no file, on a disk that holds another file.
C13_Witness ==
    ReadDone /\ call.filename \notin DOMAIN files /\ DOMAIN files # {} /\ IsError(result)

\* A text that a write left unfinished: empty, or without the bracket that
\* closes the document.
Truncated(text) ==
    \/ text = <<>>
    \/ text[Len(text)] \notin {Tok(0, "}", ""), Tok(0, "]", "")}

\* A read of a file whose document is complete and has no records field.
ReadsNoRecords ==
    /\ ReadDone /\ call.filename \in DOMAIN files
    /\ ~Truncated(files[call.filename])
    /\ Load(files[call.filename]).ok
    /\ IsDict(Load(files[call.filename]).val)
    /\ "records" \notin DOMAIN Load(files[call.filename]).val.v

C14_WitnessTruncated ==
    ReadDone /\ call.filename \in DOMAIN files /\ files[call.filename] = <<>>

\* Both writers have closed their files.
WritersDone == pc = "writers" /\ \A i \in Writers : call[i].pc = "closed"

\* C15: when both writers are done the file holds the whole document of the
\* writer that wrote last, and nothing else.
C15_LastWriteWinsClaim ==
    WritersDone =>
        files[SharedName] = Dump(call[trace[Len(trace)].w].logs_data)


\* ------------------------------------------------------------------- C16

Built == pc = "built"

\* The lines of a query that carry the keyword kw.
Clauses(query, kw) == SelectSeq(query, LAMBDA l : l.kw = kw)

\* The six fixed predicates of a call, in the order the claim lists them.
BasePredicates(c) ==
    <<Atom("span_attributes.name LIKE '%_%'", <<Str(c.span_name_filter)>>),
      Atom("created < now() - interval _ hour", <<Num(c.exclude_first_hours)>>),
      Atom("created > now() - interval _ hour", <<Num(c.hours_back)>>),
      Atom("output IS NOT NULL", <<>>),
      Atom("output != ''", <<>>),
      Atom("metadata.userID IS NOT NULL", <<>>)>>

\* The (field, value) pairs of the extra filters of a call.
ExtraPairs(c) ==
    IF c.additional_filters = Null THEN <<>> ELSE c.additional_filters.v

IsModelPredicate(a) ==
    a.tpl \in {"metadata.model LIKE '%_%'", "metadata.model NOT LIKE '%_%'",
               "metadata.model IS NOT NULL"}

\* An equality of a field with a value, the value quoted or bare.
IsEquality(a, fv) ==
    a.tpl \in {"_ = '_'", "_ = _"} /\ a.args = <<Str(fv[1]), fv[2]>>

\* C16: the query build_fetch_logs_query renders has exactly one filter:
\* clause, whose predicates joined with AND are the six base predicates,
\* then the model predicates (none exactly when there is no model filter),
\* then one equality per extra filter in order; and it has exactly one
\* limit: clause, of the limit given.
C16_OneFilterOneLimit ==
    Built =>
        LET filters == Clauses(result.v, "filter:")
            limits == Clauses(result.v, "limit:")
            preds == filters[1].preds
            extra == ExtraPairs(call)
            m == Len(preds) - 6 - Len(extra)
        IN /\ Len(filters) = 1
           /\ Len(limits) = 1
           /\ limits[1].n = call.limit
           /\ m >= 0
           /\ (m = 0) <=> (call.model_filter = Null)
           /\ SubSeq(preds, 1, 6) = BasePredicates(call)
           /\ \A i \in 7..(6 + m) : IsModelPredicate(preds[i])
           /\ \A i \in 1..Len(extra) : IsEquality(preds[6 + m + i], extra[i])

C16_Witness ==
    /\ Built
    /\ call.model_filter = Str("NOT mini")
    /\ Len(ExtraPairs(call)) = 2
    /\ Len(Clauses(result.v, "filter:")[1].preds) = 10

\* ------------------------------------------------------------------- C17

\* The predicates on the model that a filter holds, in order.
ModelPredicates(query) ==
    SelectSeq(Clauses(query, "filter:")[1].preds, IsModelPredicate)

\* C17: the model predicate of the rendered filter follows model_filter:
\* "mini" gives LIKE '%mini%'; "NOT mini" gives NOT LIKE '%mini%' and
\* IS NOT NULL; any other non-empty string s gives LIKE '%s%'; None gives
\* no model predicate.
C17_ModelPredicate ==
    Built =>
        LET mf == call.model_filter
            got == ModelPredicates(result.v)
        IN CASE mf = Null -> got = <<>>
             [] mf = Str("mini") ->
                  got = <<Atom("metadata.model LIKE '%_%'", <<Str("mini")>>)>>
             [] mf = Str("NOT mini") ->
                  got = <<Atom("metadata.model NOT LIKE '%_%'", <<Str("mini")>>),
                          Atom("metadata.model IS NOT NULL", <<>>)>>
             [] mf = Str("") -> TRUE
             [] OTHER -> got = <<Atom("metadata.model LIKE '%_%'", <<mf>>)>>

C17_Witness ==
    /\ Built
    /\ call.model_filter = Str("NOT mini")
    /\ Len(ModelPredicates(result.v)) = 2

\* ------------------------------------------------------------------- C18

Formatted == pc = "formatted"

\* The input of the i-th raw record and of the i-th formatted one.
RawInput(i) == Get(call.records[i], "input")

OutInput(i) == result.v[i].v.input

IsSystem(msg) == IsDict(msg) /\ Get(msg, "role") = Str("system")

Supplied(x, key) == IF IsDict(x) THEN Get(x, key) ELSE Null

\* The first of two values that is present.
Prefer(a, b) == IF a # Null THEN a ELSE b

\* C19: user_id is the top-level field when present, else the metadata
\* field; model is the metadata field when present, else the top-level
\* field; each is absent only when neither place supplies a value.
C19_ResolutionClaim ==
    Formatted =>
        \A i \in 1..Len(call.records) :
            LET record == call.records[i]
                metadata == Get(record, "metadata")
            IN /\ result.v[i].v.user_id
                    = Prefer(Get(record, "userID"), Supplied(metadata, "userID"))
               /\ result.v[i].v.model
                    = Prefer(Supplied(metadata, "model"), Get(record, "model"))

\* ------------------------------------------------------------------- C20

\* C20: format_log_records never fails, and returns one record per input
\* record in the same order.
C20_NeverFailsClaim ==
    /\ pc # "raised"
    /\ Formatted =>
          /\ Len(result.v) = Len(call.records)
          /\ \A i \in 1..Len(call.records) :
                result.v[i].v.id = Get(call.records[i], "id")

\* ------------------------------------------------------------------- C22

\* The retries a fetch performed: its passes of the loop after the first.
RetriesPerformed == Count(trace, "exec") - 1

\* C22: the retry count a fetch reports is the number of retries it
\* performed: on success retries is the number of failed attempts before
\* the successful one (absent when there were none), on failure
\* retries_attempted is the number of attempts made after the first.
C22_RetryCountClaim ==
    FetchDone =>
        IF IsError(result)
        THEN result.v.sampling_info.v.retries_attempted = Num(RetriesPerformed)
        ELSE result.v.sampling_info.v.retries
                = (IF RetriesPerformed = 0 THEN Null ELSE Num(RetriesPerformed))

\* The part of C22 about a fetch that succeeds.
C22_SuccessPart ==
    (FetchDone /\ ~IsError(result)) =>
        result.v.sampling_info.v.retries
            = (IF RetriesPerformed = 0 THEN Null ELSE Num(RetriesPerformed))

\* ------------------------------------------------------------------- C21

\* The records of the file the caller pages through.
PagedRecords == Get(Load(files[SharedName]).val, "records").v

\* C21: a caller who starts at 0 and follows next_start_index while
\* has_more is true has received, after every call, the first records of
\* the file once each in file order; whenever has_more is true the
\* next_start_index is greater than the start_index of that call; and when
\* has_more is false every record has been received.
C21_PaginationClaim ==
    (pc \in {"page", "paged"} /\ call.calls > 0) =>
        /\ call.received = SubSeq(PagedRecords, 1, Len(call.received))
        /\ Get(result, "has_more") = Bool(TRUE) =>
              Get(result, "next_start_index").v > result.v.batch_info.v.start_index.v
        /\ pc = "paged" => call.received = PagedRecords

\* The same for a caller whose count is at least 1.
C21_PositiveCount ==
    (pc \in {"page", "paged"} /\ call.calls > 0 /\ call.count >= 1) =>
        /\ call.received = SubSeq(PagedRecords, 1, Len(call.received))
        /\ Get(result, "has_more") = Bool(TRUE) =>
              Get(result, "next_start_index").v > result.v.batch_info.v.start_index.v
        /\ pc = "paged" => call.received = PagedRecords
=============================================================================
